---------------------------- MODULE Spec2Model ----------------------------
(* BabyNest: the HTTP service (app.py), its session store, the query      *)
(* router, the end-of-session summarizer (components.py) and the          *)
(* construction of the health-advice crew (crew.py).                      *)
(*                                                                        *)
(* Every request handler of app.py is an `async def` that contains no     *)
(* `await`: once the event loop enters it, it runs to its return or to    *)
(* its exception without yielding.  One handler call is one action.       *)
(*                                                                        *)
(* The handlers are modelled as they run against the module-level names   *)
(* they use (llm, adaptive_convo, crew_instance, session_memory, the       *)
(* limiter): Init is the state in which those names are bound and no      *)
(* request has been served.  crew_instance is what Babynest().crew()      *)
(* comes to.  The models, the vector index and the crew's kickoff are      *)
(* external: a call on one of them returns a value or raises.             *)
EXTENDS Naturals, Sequences, FiniteSets

VARIABLES
    session_memory,   \* components.session_memory: session id -> list of (q, a)
    uuid_count,       \* how many uuid4() values have been drawn so far
    hits,             \* the limiter's storage: address -> requests in the window
    request,          \* the request being answered (observed at the boundary)
    response,         \* the HTTP response it got
    calls,            \* the external calls the handler made, in order
    turn_log,         \* session id -> the (q, a) of each successful call, in call order
    crew_instance,    \* the result of Babynest().crew()
    routed,           \* the last awaited route_query call: its input and result
    looked_up,        \* the last rag_tool call: its input and what it returned
    inflight,         \* chat requests admitted whose handler has not run yet
    finished          \* the chat requests whose handler has returned, in that order

vars == <<session_memory, uuid_count, hits, request, response, calls,
          turn_log, crew_instance, routed,
                   looked_up, inflight, finished>>

--------------------------------------------------------------------------
(* Bounds of the model *)

MaxTurns == 3
MaxUuids == 1
MaxRequests == 3

--------------------------------------------------------------------------
(* Text.  A Python str is a sequence of one-character strings. *)

UpperToLower ==
    [A |-> "a", B |-> "b", C |-> "c", D |-> "d", E |-> "e", G |-> "g",
     H |-> "h", I |-> "i", L |-> "l", M |-> "m", N |-> "n", O |-> "o",
     P |-> "p", R |-> "r", S |-> "s", T |-> "t", U |-> "u", V |-> "v",
     W |-> "w", Y |-> "y"]

\* str.lower() on one character
LowerChar(c) == IF c \in DOMAIN UpperToLower THEN UpperToLower[c] ELSE c

\* a lower() that leaves the text as it is
Lower_unchanged(s) == s

\* str.lower()
Lower(s) == [i \in 1..Len(s) |-> LowerChar(s[i])]

IsSpace(c) == c \in {" ", "\n", "\t"}

RECURSIVE LStrip(_)
LStrip(s) == IF s # <<>> /\ IsSpace(Head(s)) THEN LStrip(Tail(s)) ELSE s

RECURSIVE RStrip(_)
RStrip(s) ==
    IF s # <<>> /\ IsSpace(s[Len(s)]) THEN RStrip(SubSeq(s, 1, Len(s) - 1)) ELSE s

\* str.strip()
Strip(s) == RStrip(LStrip(s))

\* `kw in s` for two strs: kw occurs in s as a contiguous substring
Contains(s, kw) ==
    \E i \in 1..(Len(s) + 1) :
        /\ i + Len(kw) - 1 <= Len(s)
        /\ \A j \in 1..Len(kw) : s[i + j - 1] = kw[j]

CREWAI    == <<"c", "r", "e", "w", "a", "i">>
LANGCHAIN == <<"l", "a", "n", "g", "c", "h", "a", "i", "n">>

health_keywords ==
    { <<"s", "y", "m", "p", "t", "o", "m", "s">>,
      <<"p", "a", "i", "n">>,
      <<"d", "o", "c", "t", "o", "r">>,
      <<"s", "w", "o", "l", "l", "e", "n">>,
      <<"v", "o", "m", "i", "t", "i", "n", "g">>,
      <<"b", "l", "e", "e", "d", "i", "n", "g">>,
      <<"p", "o", "s", "t", "p", "a", "r", "t", "u", "m">> }

--------------------------------------------------------------------------
(* The query router: app.py, route_query *)

\* What a call to an external service (a model, the vector index) comes to:
\* it returns a value or it raises.
Returned(v) == [ok |-> TRUE, val |-> v]
Raised      == [ok |-> FALSE, val |-> <<>>]

\* `any(keyword in user_request.lower() for keyword in health_keywords)`
AnyHealthKeyword(user_request) ==
    \E keyword \in health_keywords : Contains(Lower(user_request), keyword)

\* The except branch of route_query: keyword matching
KeywordFallback(user_request) ==
    IF AnyHealthKeyword(user_request) THEN CREWAI ELSE LANGCHAIN

\* route_query(user_request), awaited, when the router chain's model call
\* comes to `reply`
route_query(user_request, reply) ==
    IF reply.ok
    THEN Lower(Strip(reply.val))
    ELSE KeywordFallback(user_request)

--------------------------------------------------------------------------
(* Python values that chat() compares *)

PyStr(s) == [kind |-> "str", val |-> s]

\* Calling an `async def` without `await` runs nothing of its body and
\* yields a coroutine object.
PyCoroutine(fn, arg) == [kind |-> "coroutine", fn |-> fn, val |-> arg]

\* a == b.  Two strs are equal when their characters are; a coroutine
\* object has the default identity comparison and equals no str.
PyEq(a, b) == a.kind = "str" /\ b.kind = "str" /\ a.val = b.val

--------------------------------------------------------------------------
(* Values of the model *)

\* user_request texts sent to the service
TextHi   == <<"h", "i">>
TextPain == <<"P", "A", "I", "N">>
Texts == {TextHi, TextPain}

\* texts a model call may return
AnswerX == <<"x">>
Answers == {AnswerX}

\* what a model call may come to
LlmOutcomes == {Returned(a) : a \in Answers} \cup {Raised}
\* what a call on the vector index (stored_data) may come to
IndexOutcomes == {Returned(<<"d">>), Raised}

\* originating addresses (slowapi's get_remote_address)
Addrs == {"10.0.0.1"}

\* session ids a client may make up, and the values str(uuid4()) yields,
\* in the order they are drawn: uuid4 never repeats a value
ClientIds == {"s1"}
UuidPool  == <<"uuid-1", "uuid-2", "uuid-3", "uuid-4">>
Uuid(n)   == UuidPool[n]

\* a JSON body without the field (pydantic sees the field as missing)
Missing == "<missing>"
NoText  == <<>>

--------------------------------------------------------------------------
(* The session store: components.session_memory, a dict *)

Put(d, k, v) == [x \in (DOMAIN d) \cup {k} |-> IF x = k THEN v ELSE d[x]]
Del(d, k)    == [x \in (DOMAIN d) \ {k} |-> d[x]]
EmptyDict    == [x \in {} |-> <<>>]

RECURSIVE SumLen(_, _)
SumLen(d, keys) ==
    IF keys = {} THEN 0
    ELSE LET k == CHOOSE x \in keys : TRUE
         IN  Len(d[k]) + SumLen(d, keys \ {k})

TotalTurns == SumLen(session_memory, DOMAIN session_memory)

\* the turn put in front of the history instead of at its end
AppendTurn_front(d, session_id, user_request, result) ==
    [d EXCEPT ![session_id] = <<<<user_request, result>>>> \o @]

\* the history replaced by the new turn alone
AppendTurn_replaced(d, session_id, user_request, result) ==
    [d EXCEPT ![session_id] = <<<<user_request, result>>>>]

\* the turn not recorded
AppendTurn_dropped(d, session_id, user_request, result) == d

\* session_memory[session_id].append((user_request, result))
AppendTurn(d, session_id, user_request, result) ==
    [d EXCEPT ![session_id] = Append(@, <<user_request, result>>)]

--------------------------------------------------------------------------
(* HTTP responses *)

Http(status, kind, detail, session_id, text, summary) ==
    [status |-> status, kind |-> kind, detail |-> detail,
     session_id |-> session_id, response |-> text, summary |-> summary]

NoResponse == Http(0, "none", "", "", NoText, NoText)

\* raise HTTPException(status_code=..., detail=...): {"detail": ...}
HTTPException(status, detail) == Http(status, "detail", detail, "", NoText, NoText)

\* an exception no handler catches: Starlette's plain-text 500
UnhandledException == Http(500, "text", "Internal Server Error", "", NoText, NoText)

\* a body that fails the pydantic model: FastAPI's 422
ValidationError == Http(422, "validation", "Field required", "", NoText, NoText)

\* return {"session_id": ..., "response": ...}
ChatReturn(session_id, result) == Http(200, "chat", "", session_id, result, NoText)

--------------------------------------------------------------------------
(* Rate limiting: Limiter(default_limits=["5/minute"]) behind SlowAPIMiddleware *)

RateLimit == 5

\* custom_rate_limit_exceeded_handler: defined in app.py
custom_rate_limit_exceeded_handler ==
    Http(429, "detail", "Sorry, you have exceeded the rate limit (5/minute)",
         "", NoText, NoText)

\* slowapi's own _rate_limit_exceeded_handler: {"error": "Rate limit exceeded: ..."}
slowapi_rate_limit_exceeded_handler ==
    Http(429, "error", "Rate limit exceeded: 5 per 1 minute", "", NoText, NoText)

\* app.add_exception_handler(RateLimitExceeded, _rate_limit_exceeded_handler)
exception_handler_RateLimitExceeded == slowapi_rate_limit_exceeded_handler

\* the middleware's check before the route's handler runs
Admitted(addr) == hits[addr] < RateLimit

\* the request is counted against the window of its address
Count(addr) == hits' = [hits EXCEPT ![addr] = @ + 1]

\* the request as observed: its endpoint and body, and whether the external
\* services it would call (the models, the vector index) were working
Req(endpoint, addr, session_id, user_request, services_ok) ==
    [endpoint |-> endpoint, addr |-> addr, session_id |-> session_id,
     user_request |-> user_request, services_ok |-> services_ok]

--------------------------------------------------------------------------
(* The summarizer: components.py, class AdaptiveConversation *)

PyList(items)   == [kind |-> "list", val |-> items]
PyObject(class) == [kind |-> class, val |-> <<>>]

\* app.py: llm = get_llm(); adaptive_convo = AdaptiveConversation(...)
llm            == PyObject("ChatGroq")
adaptive_convo == PyObject("AdaptiveConversation")

\* def summarize_conversation(history, summarizing_llm): the body, given the
\* two parameters as bound and what summarization_chain.invoke comes to.
\* `for q, a in history` needs a list; `summary_prompt | summarizing_llm`
\* needs a model.
summarize_conversation(history, summarizing_llm, reply) ==
    IF history.kind # "list" THEN Raised
    ELSE IF summarizing_llm.kind # "ChatGroq" THEN Raised
    ELSE reply

\* the external calls that body makes
summarize_conversation_calls(history, summarizing_llm) ==
    IF history.kind = "list" /\ summarizing_llm.kind = "ChatGroq"
    THEN <<"summarizing_llm.invoke">> ELSE <<>>

\* def add_convo_history_to_db(text): one parameter; `args` are the
\* positional arguments of the call.  The body adds the chunks to the
\* vector index and re-raises what that raises.
add_convo_history_to_db(args, added) ==
    IF Len(args) # 1 THEN Raised
    ELSE IF added.ok THEN Returned(args[1]) ELSE Raised

add_convo_history_to_db_calls(args) ==
    IF Len(args) = 1 THEN <<"stored_data.add_documents">> ELSE <<>>

\* obj.method(a): Python passes obj as the first positional argument
BoundCall1(obj, a) == <<obj, a>>

--------------------------------------------------------------------------
(* POST /api/chat: app.py, chat *)

\* line 114: route = route_query(request.user_request), not awaited
ChatRoute(user_request) == PyCoroutine("route_query", user_request)

\* lines 133-140: resolve or create the session
ResolveSessionId(session_id) ==
    IF session_id = "" THEN Uuid(uuid_count + 1) ELSE session_id

ResolveStore(session_id) ==
    LET sid == ResolveSessionId(session_id)
        m1  == IF session_id = "" THEN Put(session_memory, sid, <<>>)
               ELSE session_memory
    IN  IF sid \notin DOMAIN m1 THEN Put(m1, sid, <<>>) ELSE m1

\* lines 153-164 (and 202-208): the chain is the retriever, the prompt, the
\* model; chain.invoke raises what any of them raises
ChainInvoke(docs, reply) == IF docs.ok THEN reply ELSE Raised
ChainCalls(docs) ==
    IF docs.ok THEN <<"retriever.get_documents", "llm">>
    ELSE <<"retriever.get_documents">>

\* lines 116-128: the CrewAI branch
ChatCrewAI(addr, user_request, session_id, kickoff) ==
    /\ calls' = <<"crew_instance.kickoff">>
    /\ IF crew_instance.state = "Crew" /\ kickoff.ok
       THEN /\ response' = ChatReturn(
                   IF session_id # "" THEN session_id ELSE Uuid(uuid_count + 1),
                   kickoff.val)
            /\ uuid_count' = IF session_id # "" THEN uuid_count ELSE uuid_count + 1
       ELSE /\ response' = HTTPException(500, "CrewAI workflow failed.")
            /\ UNCHANGED uuid_count
    /\ UNCHANGED <<session_memory, turn_log>>

\* lines 129-171: the LangChain branch; lines 180-215 of assistant are the same
ChatLangChain(addr, user_request, session_id, docs, reply) ==
    LET sid    == ResolveSessionId(session_id)
        store  == ResolveStore(session_id)
        log    == IF sid \in DOMAIN turn_log THEN turn_log
                  ELSE Put(turn_log, sid, <<>>)
        result == ChainInvoke(docs, reply)
    IN  /\ uuid_count' = IF session_id = "" THEN uuid_count + 1 ELSE uuid_count
        /\ calls' = ChainCalls(docs)
        /\ IF result.ok
           THEN /\ session_memory' = AppendTurn(store, sid, user_request, result.val)
                /\ turn_log' = [log EXCEPT ![sid] = Append(@, <<user_request, result.val>>)]
                /\ response' = ChatReturn(sid, result.val)
           ELSE /\ session_memory' = store
                /\ turn_log' = log
                /\ response' = UnhandledException

\* lines 112-171: the body of chat, from its first line to its return or
\* its exception, on a body that is a ChatRequest
ChatHandler(addr, user_request, session_id) ==
    IF PyEq(ChatRoute(user_request), PyStr(CREWAI))
    THEN \E kickoff \in LlmOutcomes :
         /\ request' = Req("chat", addr, session_id, user_request, kickoff.ok)
         /\ ChatCrewAI(addr, user_request, session_id, kickoff)
    ELSE \E docs \in IndexOutcomes, reply \in LlmOutcomes :
         /\ request' = Req("chat", addr, session_id, user_request,
                           docs.ok /\ reply.ok)
         /\ ChatLangChain(addr, user_request, session_id, docs, reply)

\* a request the limiter admits; the body is checked against ChatRequest
\* (user_request: str, session_id: str) before the handler runs
Chat(addr, user_request, session_id) ==
    /\ Admitted(addr)
    /\ TotalTurns < MaxTurns
    /\ session_id = "" => uuid_count < MaxUuids
    /\ Count(addr)
    /\ UNCHANGED <<crew_instance, routed,
                   looked_up, inflight, finished>>
    /\ IF session_id = Missing
       THEN /\ request' = Req("chat", addr, session_id, user_request, TRUE)
            /\ response' = ValidationError
            /\ calls' = <<>>
            /\ UNCHANGED <<session_memory, uuid_count, turn_log>>
       ELSE ChatHandler(addr, user_request, session_id)

\* POST /api/health: app.py, assistant
Assistant(addr, user_request, session_id) ==
    /\ Admitted(addr)
    /\ TotalTurns < MaxTurns
    /\ session_id = "" => uuid_count < MaxUuids
    /\ Count(addr)
    /\ UNCHANGED <<crew_instance, routed,
                   looked_up, inflight, finished>>
    /\ IF session_id = Missing
       THEN /\ request' = Req("health", addr, session_id, user_request, TRUE)
            /\ response' = ValidationError
            /\ calls' = <<>>
            /\ UNCHANGED <<session_memory, uuid_count, turn_log>>
       ELSE \E docs \in IndexOutcomes, reply \in LlmOutcomes :
            /\ request' = Req("health", addr, session_id, user_request,
                              docs.ok /\ reply.ok)
            /\ ChatLangChain(addr, user_request, session_id, docs, reply)

--------------------------------------------------------------------------
(* POST /api/end_session: app.py, end_session *)

\* return {"message": ...} and return {"message": ..., "summary": ...}
MessageReturn(message) == Http(200, "message", message, "", NoText, NoText)
SummaryReturn(message, summary) == Http(200, "summary", message, "", NoText, summary)

\* the session removed before the summary is saved, whatever comes of it
EndSessionSave_removed_first(session_id, conversation, reply, added) ==
    /\ calls' = <<"summarize_conversation">>
    /\ session_memory' = Del(session_memory, session_id)
    /\ turn_log' = Del(turn_log, session_id)
    /\ response' = HTTPException(500, "Failed to save session data.")

\* lines 237-247: the try block, on a conversation that has turns
EndSessionSave(session_id, conversation, reply, added) ==
    LET sargs   == BoundCall1(adaptive_convo, PyList(conversation))
        summary == summarize_conversation(sargs[1], sargs[2], reply)
        scalls  == <<"summarize_conversation">>
                   \o summarize_conversation_calls(sargs[1], sargs[2])
        pargs   == BoundCall1(adaptive_convo, summary.val)
        saved   == add_convo_history_to_db(pargs, added)
        pcalls  == <<"add_convo_history_to_db">>
                   \o add_convo_history_to_db_calls(pargs)
    IN  IF ~summary.ok
        THEN /\ calls' = scalls
             /\ response' = HTTPException(500, "Failed to save session data.")
             /\ UNCHANGED <<session_memory, turn_log>>
        ELSE IF ~saved.ok
        THEN /\ calls' = scalls \o pcalls
             /\ response' = HTTPException(500, "Failed to save session data.")
             /\ UNCHANGED <<session_memory, turn_log>>
        ELSE /\ calls' = scalls \o pcalls
             /\ session_memory' = Del(session_memory, session_id)
             /\ turn_log' = Del(turn_log, session_id)
             /\ response' = SummaryReturn(
                    "Session summarized and saved successfully.", summary.val)

\* lines 229-230: the session is not in the store
EndSessionUnknown(session_id) ==
    /\ response' = HTTPException(404, "Session not found.")
    /\ calls' = <<>>
    /\ UNCHANGED <<session_memory, turn_log>>

\* the empty session reported and left in the store
EndSessionEmpty_kept(session_id) ==
    /\ response' = MessageReturn("Session was empty. No data saved.")
    /\ calls' = <<>>
    /\ UNCHANGED <<session_memory, turn_log>>

\* lines 233-235: the conversation is empty
EndSessionEmpty(session_id) ==
    /\ session_memory' = Del(session_memory, session_id)
    /\ turn_log' = Del(turn_log, session_id)
    /\ response' = MessageReturn("Session was empty. No data saved.")
    /\ calls' = <<>>

EndSession(addr, session_id) ==
    /\ Admitted(addr)
    /\ Count(addr)
    /\ UNCHANGED <<uuid_count, crew_instance, routed,
                   looked_up, inflight, finished>>
    /\ IF session_id = Missing
       THEN /\ request' = Req("end_session", addr, session_id, NoText, TRUE)
            /\ response' = ValidationError
            /\ calls' = <<>>
            /\ UNCHANGED <<session_memory, turn_log>>
       ELSE IF session_id \notin DOMAIN session_memory
       THEN /\ request' = Req("end_session", addr, session_id, NoText, TRUE)
            /\ EndSessionUnknown(session_id)
       ELSE IF session_memory[session_id] = <<>>
       THEN /\ request' = Req("end_session", addr, session_id, NoText, TRUE)
            /\ EndSessionEmpty(session_id)
       ELSE \E reply \in LlmOutcomes, added \in IndexOutcomes :
            /\ request' = Req("end_session", addr, session_id, NoText,
                              reply.ok /\ added.ok)
            /\ EndSessionSave(session_id, session_memory[session_id], reply, added)

--------------------------------------------------------------------------
(* The limiter *)

\* a request over the limit: the middleware answers it with the handler
\* registered for RateLimitExceeded and the route's handler does not run
RateLimitExceeded(addr, endpoint) ==
    /\ ~Admitted(addr)
    /\ request' = Req(endpoint, addr, Missing, NoText, TRUE)
    /\ response' = exception_handler_RateLimitExceeded
    /\ calls' = <<>>
    /\ UNCHANGED <<session_memory, uuid_count, hits, turn_log, crew_instance, routed,
                   looked_up, inflight, finished>>

\* the one-minute window of an address runs out
WindowExpire(addr) ==
    /\ hits[addr] > 0
    /\ hits' = [hits EXCEPT ![addr] = 0]
    /\ UNCHANGED <<session_memory, uuid_count, request, response, calls,
                   turn_log, crew_instance, routed,
                   looked_up, inflight, finished>>

Endpoints == {"chat", "health", "end_session"}

--------------------------------------------------------------------------
(* crew.py: class Babynest *)

\* what an instance of Babynest has: the methods of the class and the
\* attributes __init__ sets
BabynestAttributes ==
    {"agents_config", "tasks_config",
     "maternal_health_researcher", "personalized_guidance",
     "community_testimonials", "summarizer", "moderator",
     "ai_support_task", "postpartum_support", "testimonial_finder",
     "final_summary", "crew"}

\* crew(): the methods the tasks=[...] list calls on self, in order
crew_tasks ==
    <<"health_support", "postpartum_support", "testimonial_finder", "final_summary">>

\* evaluating the list: the elements are evaluated left to right, and
\* self.<name>() raises AttributeError when the instance has no such name
RECURSIVE EvalTasks(_, _)
EvalTasks(names, done) ==
    IF names = <<>> THEN [state |-> "Crew", tasks |-> done]
    ELSE IF Head(names) \notin BabynestAttributes
    THEN [state |-> "AttributeError", tasks |-> done]
    ELSE EvalTasks(Tail(names), Append(done, Head(names)))

\* Babynest().crew()
BabynestCrew == EvalTasks(crew_tasks, <<>>)

--------------------------------------------------------------------------
(* crew.py: rag_tool *)

\* a value a tool hands back to the agent: a str, a list of documents, None
PyValue(kind, text, items) == [kind |-> kind, text |-> text, items |-> items]
PyNone == PyValue("NoneType", "", <<>>)

\* rag_tool(query), when stored_data.invoke(query) comes to `found`.  The
\* try block calls the index and logs; it has no return statement, so the
\* function falls off its end.  The except block returns the literal.
rag_tool(query, found) ==
    IF found.ok
    THEN PyNone
    ELSE PyValue("str", "No relevant documents found", <<>>)

--------------------------------------------------------------------------
(* The service *)

NoRequest == Req("none", "", Missing, NoText, TRUE)
NotLookedUp == [query |-> NoText, found |-> Raised, result |-> PyValue("none", "", <<>>)]
NotRouted == [user_request |-> NoText, reply |-> Raised, decision |-> NoText]

Init ==
    /\ session_memory = EmptyDict
    /\ uuid_count = 0
    /\ hits = [a \in Addrs |-> 0]
    /\ request = NoRequest
    /\ response = NoResponse
    /\ calls = <<>>
    /\ turn_log = EmptyDict
    /\ crew_instance = BabynestCrew    \* app.py line 64
    /\ routed = NotRouted
    /\ looked_up = NotLookedUp
    /\ inflight = {}
    /\ finished = <<>>

\* the session ids a client can send: none, the empty string, one it made
\* up, or one the service gave out
RequestSessionIds ==
    {Missing, ""} \cup ClientIds \cup {Uuid(i) : i \in 1..uuid_count}

Next ==
    \/ \E addr \in Addrs, user_request \in Texts, session_id \in RequestSessionIds :
           Chat(addr, user_request, session_id)
    \/ \E addr \in Addrs, user_request \in Texts, session_id \in RequestSessionIds :
           Assistant(addr, user_request, session_id)
    \/ \E addr \in Addrs, session_id \in RequestSessionIds :
           EndSession(addr, session_id)
    \/ \E addr \in Addrs, endpoint \in Endpoints : RateLimitExceeded(addr, endpoint)
    \/ \E addr \in Addrs : WindowExpire(addr)

Spec == Init /\ [][Next]_vars

--------------------------------------------------------------------------
(* The router on its own: route_query awaited on a text, with the router   *)
(* chain's model call returning a reply or raising                         *)

UpperChar(c) ==
    IF \E u \in DOMAIN UpperToLower : UpperToLower[u] = c
    THEN CHOOSE u \in DOMAIN UpperToLower : UpperToLower[u] = c
    ELSE c

Upper(s)      == [i \in 1..Len(s) |-> UpperChar(s[i])]
Capitalize(s) == [i \in 1..Len(s) |-> IF i = 1 THEN UpperChar(s[i]) ELSE s[i]]
Alternate(s)  == [i \in 1..Len(s) |-> IF i % 2 = 0 THEN UpperChar(s[i]) ELSE s[i]]

TextHello ==
    <<"H", "e", "l", "l", "o", ",", " ", "h", "o", "w", " ", "a", "r", "e", " ",
      "y", "o", "u", " ", "t", "o", "d", "a", "y", "?">>

\* texts that hold a keyword, in four letter cases, alone and inside a sentence
KeywordTexts ==
    { pre \o form \o post :
        pre  \in {<<>>, <<"m", "y", " ">>},
        post \in {<<>>, <<"!">>},
        form \in UNION { {k, Upper(k), Capitalize(k), Alternate(k)} :
                         k \in health_keywords } }

\* texts that hold none: a greeting, the empty text, keywords cut short or
\* split by a blank
OtherTexts ==
    { TextHello, TextHi, <<>>,
      <<"p", "a", "i">>, <<"p", "a", " ", "i", "n">>,
      <<"B", "L", "E", "E", "D">>, <<"s", "w", "e", "l", "l">> }

RouterTexts == KeywordTexts \cup OtherTexts

\* what the router chain's model call may come to
RouterReplies ==
    { Raised, Returned(CREWAI), Returned(LANGCHAIN),
      Returned(<<" ", "C", "r", "e", "w", "A", "I", "\n">>) }

\* decision = await route_query(user_request)
RouteQueryAwaited(user_request, reply) ==
    /\ routed' = [user_request |-> user_request, reply |-> reply,
                  decision |-> route_query(user_request, reply)]
    /\ UNCHANGED <<session_memory, uuid_count, hits, request, response, calls,
                   turn_log, crew_instance,
                   looked_up, inflight, finished>>

NextRouter ==
    \E user_request \in RouterTexts, reply \in RouterReplies :
        RouteQueryAwaited(user_request, reply)

SpecRouter == Init /\ [][NextRouter]_vars

--------------------------------------------------------------------------
(* The RAG tool on its own: rag_tool called on a query, the vector index   *)
(* returning documents, returning none, or raising                         *)

RagOutcomes ==
    { Returned(<<"doc-1">>), Returned(<<"doc-1", "doc-2">>), Returned(<<>>), Raised }

RagToolCall(query, found) ==
    /\ looked_up' = [query |-> query, found |-> found, result |-> rag_tool(query, found)]
    /\ UNCHANGED <<session_memory, uuid_count, hits, request, response, calls,
                   turn_log, crew_instance, routed, inflight, finished>>

NextRagTool ==
    \E query \in RouterTexts, found \in RagOutcomes : RagToolCall(query, found)

SpecRagTool == Init /\ [][NextRagTool]_vars

--------------------------------------------------------------------------
(* Chat requests in flight.  The server takes requests concurrently: a     *)
(* request passes the limiter in the middleware and its body is read, both *)
(* with awaits, before chat is entered, so several requests can be         *)
(* admitted and waiting at once.  chat itself awaits nothing               *)
(* (chain.invoke is a blocking call made on the event loop), so the        *)
(* handler of one request runs from its first line to its return before    *)
(* the handler of another is entered.                                      *)

Received == Cardinality(inflight) + Len(finished)

\* the session ids of the requests taken here: bodies that are a ChatRequest
InflightSessionIds ==
    {""} \cup ClientIds \cup {Uuid(i) : i \in 1..uuid_count}

\* the middleware admits a chat request; its handler is yet to run
Receive(addr, user_request, session_id) ==
    /\ Admitted(addr)
    /\ Received < MaxRequests
    /\ Count(addr)
    /\ inflight' = inflight \cup
           {[id |-> Received + 1, addr |-> addr,
             user_request |-> user_request, session_id |-> session_id]}
    /\ UNCHANGED <<session_memory, uuid_count, request, response, calls,
                   turn_log, crew_instance, routed, looked_up, finished>>

\* the event loop enters the handler of one of the waiting requests, which
\* runs to its end
Run(r) ==
    /\ r \in inflight
    /\ ChatHandler(r.addr, r.user_request, r.session_id)
    /\ inflight' = inflight \ {r}
    /\ finished' = Append(finished,
           [id |-> r.id,
            alongside |-> {o.id : o \in inflight \ {r}},
            services_ok |-> request'.services_ok,
            status |-> response'.status,
            session_id |-> response'.session_id,
            turn |-> <<r.user_request, response'.response>>])
    /\ UNCHANGED <<hits, crew_instance, routed, looked_up>>

NextInflight ==
    \/ \E addr \in Addrs, user_request \in Texts, session_id \in InflightSessionIds :
           Receive(addr, user_request, session_id)
    \/ \E r \in inflight : Run(r)

SpecInflight == Init /\ [][NextInflight]_vars

--------------------------------------------------------------------------
(* Properties *)

\* the step is a call of `endpoint` that the limiter admitted
IsCall(endpoint) ==
    /\ request'.endpoint = endpoint
    /\ hits'[request'.addr] = hits[request'.addr] + 1

HistoryOf(d, session_id) == IF session_id \in DOMAIN d THEN d[session_id] ELSE <<>>

\* C1: turn ordering.  Counted from the creation of a session (its history
\* empty), the history of the session is, at every moment, the sequence of
\* the (user_text, response) pairs of the successful chat calls made on it,
\* in the order of the calls: each call appended its pair at the end and no
\* earlier turn was reordered, dropped or altered.
C1_TurnOrdering ==
    /\ DOMAIN session_memory = DOMAIN turn_log
    /\ \A sid \in DOMAIN session_memory : session_memory[sid] = turn_log[sid]

\* three calls with the texts hi, PAIN, hi on the session s1
C1_Witness ==
    /\ "s1" \in DOMAIN session_memory
    /\ session_memory["s1"] =
           << <<TextHi, AnswerX>>, <<TextPain, AnswerX>>, <<TextHi, AnswerX>> >>

C3_RoutingDispatch ==
    (request.endpoint = "chat" /\ response.status = 200) =>
        \A reply \in RouterReplies :
            (route_query(request.user_request, reply) = CREWAI)
                <=> (calls = <<"crew_instance.kickoff">>)

\* C4: end-session on a known session with at least one turn, the models and
\* the vector index working, calls summarize, then persist, then removes the
\* session and reports success together with the summary text.
C4_EndSessionSummarizes ==
    [][ ( /\ IsCall("end_session")
          /\ request'.session_id \in DOMAIN session_memory
          /\ HistoryOf(session_memory, request'.session_id) # <<>>
          /\ request'.services_ok )
        => /\ response'.status = 200
           /\ response'.kind = "summary"
           /\ response'.summary # NoText
           /\ calls' = <<"summarize_conversation", "summarizing_llm.invoke",
                         "add_convo_history_to_db", "stored_data.add_documents">>
           /\ request'.session_id \notin DOMAIN session_memory'
      ]_vars

\* C5: a chat call made with no session_id succeeds, creates a new session
\* and leaves exactly one turn in it.
C5_SessionCreatedByAbsence ==
    (request.endpoint = "chat" /\ request.session_id = Missing
        /\ request.services_ok /\ response.status # 429)
    => /\ response.status = 200
       /\ response.session_id \in DOMAIN session_memory
       /\ Len(session_memory[response.session_id]) = 1

\* C6: end-session on a session that exists with zero turns returns the
\* message "Session was empty. No data saved.", makes no summarization or
\* persistence call and removes the session; end-session on an identifier
\* that is not in the store (as that one is from then on) returns 404
\* "Session not found." and makes no call either.
C6_EndSessionEmpty ==
    [][ /\ ( /\ IsCall("end_session")
             /\ request'.session_id \in DOMAIN session_memory
             /\ HistoryOf(session_memory, request'.session_id) = <<>> )
           => /\ response' = MessageReturn("Session was empty. No data saved.")
              /\ calls' = <<>>
              /\ request'.session_id \notin DOMAIN session_memory'
              /\ \A other \in DOMAIN session_memory \ {request'.session_id} :
                     /\ other \in DOMAIN session_memory'
                     /\ session_memory'[other] = session_memory[other]
        /\ ( /\ IsCall("end_session")
             /\ request'.session_id # Missing
             /\ request'.session_id \notin DOMAIN session_memory )
           => /\ response' = HTTPException(404, "Session not found.")
              /\ calls' = <<>>
              /\ session_memory' = session_memory
      ]_vars

\* end-session has just removed an empty session
C6_Witness ==
    /\ request.endpoint = "end_session"
    /\ response = MessageReturn("Session was empty. No data saved.")
    /\ request.session_id \notin DOMAIN session_memory

\* the seven keywords of the claim
C7_Keywords ==
    { <<"s", "y", "m", "p", "t", "o", "m", "s">>, <<"p", "a", "i", "n">>,
      <<"d", "o", "c", "t", "o", "r">>, <<"s", "w", "o", "l", "l", "e", "n">>,
      <<"v", "o", "m", "i", "t", "i", "n", "g">>,
      <<"b", "l", "e", "e", "d", "i", "n", "g">>,
      <<"p", "o", "s", "t", "p", "a", "r", "t", "u", "m">> }

\* kw occurs in s, each of its letters in either case
OccursAnyCase(s, kw) ==
    \E i \in 1..Len(s) :
        /\ i + Len(kw) - 1 <= Len(s)
        /\ \A j \in 1..Len(kw) : s[i + j - 1] \in {kw[j], UpperChar(kw[j])}

\* C7: router fallback.  Whenever the classification model call fails, the
\* router returns 'crewai' for every text that contains, in any letter case,
\* one of the seven keywords, and 'langchain' for every text that contains
\* none of them.
C7_RouterFallback ==
    (routed # NotRouted /\ ~routed.reply.ok) =>
        routed.decision =
            IF \E kw \in C7_Keywords : OccursAnyCase(routed.user_request, kw)
            THEN CREWAI ELSE LANGCHAIN

\* the model call failed on "my BLEEDING!" and the router answered 'crewai'
C7_Witness ==
    /\ ~routed.reply.ok
    /\ routed.user_request =
           <<"m", "y", " ", "B", "L", "E", "E", "D", "I", "N", "G", "!">>
    /\ routed.decision = CREWAI

\* C8: final-summary ordering.  The Crew is built with the task list
\* health-support, postpartum-support, testimonial-finder, final-summary, so
\* that every execution runs the three before final-summary.
C8_FinalSummaryLast ==
    /\ crew_instance.state = "Crew"
    /\ Len(crew_instance.tasks) = 4
    /\ crew_instance.tasks[4] = "final_summary"
    /\ {crew_instance.tasks[i] : i \in 1..3} =
           {"health_support", "postpartum_support", "testimonial_finder"}

\* C9: rate limiting.  No address gets more than 5 requests admitted in one
\* window, and the request over the limit is answered, before any handler
\* logic, with status 429 and exactly the body
\* {"detail": "Sorry, you have exceeded the rate limit (5/minute)"}.
C9_RateLimitBody ==
    /\ \A a \in Addrs : hits[a] <= 5
    /\ response.status = 429 =>
           /\ calls = <<>>
           /\ response.kind = "detail"
           /\ response.detail = "Sorry, you have exceeded the rate limit (5/minute)"

\* C10: fallback model invocation.  When the primary model client raises
\* while answering a general-chat request, the fallback client 'gemini' is
\* called once; the response is then its answer, or, if it fails too, a 500
\* with detail "Failed to process request with all available models.".
C10_FallbackInvocation ==
    ( /\ request.endpoint = "chat"
      /\ Len(calls) >= 2
      /\ calls[2] = "llm"
      /\ ~request.services_ok )
    => /\ Len(calls) = 3
       /\ calls[3] = "gemini"
       /\ \/ response.status = 200
          \/ response = HTTPException(
                 500, "Failed to process request with all available models.")

\* C11: the RAG tool's result.  lookup(query) returns the vector index's
\* result when that is non-empty, the literal "No relevant documents found
\* in the db" when it is empty, and the literal "No relevant documents
\* found" when the index raises; it never returns a non-text value.
C11_RagToolResult ==
    looked_up # NotLookedUp =>
        /\ looked_up.result.kind # "NoneType"
        /\ looked_up.result =
             IF ~looked_up.found.ok
             THEN PyValue("str", "No relevant documents found", <<>>)
             ELSE IF looked_up.found.val = <<>>
             THEN PyValue("str", "No relevant documents found in the db", <<>>)
             ELSE PyValue("list", "", looked_up.found.val)

\* C12: end-session failure keeps the session.  When end-session on a
\* session that has turns does not come to its successful return (the
\* summarization or the persistence raised), the response is 500 with
\* detail "Failed to save session data." and the store is left as it was,
\* the session with all its turns in it; and end-session on an identifier
\* that is in the store never answers 404, so a later call on the same
\* identifier is not "not found".
C12_EndSessionFailureKeeps ==
    [][ /\ ( /\ IsCall("end_session")
             /\ request'.session_id \in DOMAIN session_memory
             /\ HistoryOf(session_memory, request'.session_id) # <<>>
             /\ response'.status # 200 )
           => /\ response' = HTTPException(500, "Failed to save session data.")
              /\ session_memory' = session_memory
        /\ ( /\ IsCall("end_session")
             /\ request'.session_id \in DOMAIN session_memory )
           => response'.status # 404
      ]_vars

\* end-session has failed on the session s1, which still holds its two turns
C12_Witness ==
    /\ request.endpoint = "end_session"
    /\ request.session_id = "s1"
    /\ response = HTTPException(500, "Failed to save session data.")
    /\ "s1" \in DOMAIN session_memory
    /\ session_memory["s1"] = << <<TextHi, AnswerX>>, <<TextPain, AnswerX>> >>

\* the turns of the requests that finished successfully on a session, in
\* the order in which the requests finished
FinishedTurns(session_id) ==
    LET OnSession(e) == e.status = 200 /\ e.session_id = session_id
        sel == SelectSeq(finished, OnSession)
    IN  [i \in 1..Len(sel) |-> sel[i].turn]

\* C13: concurrent chat requests on one session.  Whatever requests are in
\* flight at once, every request whose retrieval and model calls work
\* completes successfully, and the history of each session is exactly the
\* turns of the requests that completed on it, each once, in the order in
\* which the requests finished: no append overwrites or discards another
\* request's turn or an earlier turn.
C13_ConcurrentChat ==
    /\ \A i \in 1..Len(finished) :
           finished[i].services_ok => finished[i].status = 200
    /\ \A sid \in DOMAIN session_memory :
           session_memory[sid] = FinishedTurns(sid)
    /\ \A i \in 1..Len(finished) :
           finished[i].status = 200 => finished[i].session_id \in DOMAIN session_memory

\* two requests for the session s1, which already held a turn, were in
\* flight at once and both have finished: the one received last ran first
C13_Witness ==
    /\ Len(finished) = 3
    /\ \A i \in 1..3 : finished[i].status = 200 /\ finished[i].session_id = "s1"
    /\ finished[1].alongside = {}
    /\ finished[2].id = 3
    /\ finished[2].alongside = {2}
    /\ finished[3].id = 2
    /\ Len(session_memory["s1"]) = 3

==========================================================================
